---- MODULE Spec2Model ----
(***************************************************************************)
(* A model of cdp_pipeline: Pipeline.run (pipeline.py) driving              *)
(* PipelineExecutor (executor.py) over AudioFile / CDPOperation values      *)
(* (core.py).  External programs (sfprops, housekeep, pvoc, submix and the  *)
(* operations' own programs) are calls that either succeed or raise.        *)
(***************************************************************************)
EXTENDS Integers, Sequences, FiniteSets, TLC

\* ------------------------------------------------------------------ bounds
\* the longest list of input paths handed to run / prepare_inputs
MaxInputs == 2
\* the longest operation chain of a pipeline
MaxOps == 2
\* the most points of a Breakpoint handed to to_absolute_times
MaxPoints == 3

\* ------------------------------------------------------------- core.py
\* AudioFile.channel_index: Optional[int] = None
None == 0

FileFormat == {"wav", "ana"}
ChannelMode == {"MONO", "STEREO"}

AudioFile(path, format, channels, channel_index) ==
    [path |-> path, format |-> format, channels |-> channels,
     channel_index |-> channel_index]

is_mono(f) == f.channels = "MONO"
is_stereo(f) == f.channels = "STEREO"
is_wav(f) == f.format = "wav"
is_ana(f) == f.format = "ana"

\* A path is a directory, a stem (a sequence of name parts, each a pair
\* <<kind, number>>) and an extension.
Path(dir, stem, ext) == [dir |-> dir, stem |-> stem, ext |-> ext]

\* CDPOperation: input_requirements.format / .channels, output_format,
\* multi_input, subcommand and mode (None when absent), params.
CDPOperation(format, channels, output_format, multi_input) ==
    [format |-> format, channels |-> channels, output_format |-> output_format,
     multi_input |-> multi_input, subcommand |-> "sub", mode |-> None,
     params |-> <<>>]

Arg(t, v) == [t |-> t, v |-> v]

RECURSIVE PathArgs(_, _)
PathArgs(t, files) ==
    IF files = <<>> THEN <<>>
    ELSE <<Arg(t, Head(files).path)>> \o PathArgs(t, Tail(files))

RECURSIVE ParamArgs(_)
ParamArgs(params) ==
    IF params = <<>> THEN <<>>
    ELSE <<Arg("param", Head(params))>> \o ParamArgs(Tail(params))

get_command_args_params_first(operation, input_files, output_file) ==
    (IF operation.subcommand # "" THEN <<Arg("subcommand", operation.subcommand)>>
     ELSE <<>>)
    \o (IF operation.mode # None THEN <<Arg("mode", operation.mode)>> ELSE <<>>)
    \o ParamArgs(operation.params)
    \o (IF operation.multi_input THEN PathArgs("input", input_files)
        ELSE PathArgs("input", <<Head(input_files)>>))
    \o <<Arg("output", output_file.path)>>

get_command_args_first_only(operation, input_files, output_file) ==
    (IF operation.subcommand # "" THEN <<Arg("subcommand", operation.subcommand)>>
     ELSE <<>>)
    \o (IF operation.mode # None THEN <<Arg("mode", operation.mode)>> ELSE <<>>)
    \o PathArgs("input", <<Head(input_files)>>)
    \o <<Arg("output", output_file.path)>>
    \o ParamArgs(operation.params)

get_command_args(operation, input_files, output_file) ==
    (IF operation.subcommand # "" THEN <<Arg("subcommand", operation.subcommand)>>
     ELSE <<>>)
    \o (IF operation.mode # None THEN <<Arg("mode", operation.mode)>> ELSE <<>>)
    \o (IF operation.multi_input THEN PathArgs("input", input_files)
        ELSE PathArgs("input", <<Head(input_files)>>))
    \o <<Arg("output", output_file.path)>>
    \o ParamArgs(operation.params)

\* ----------------------------------------------------------- breakpoint.py
\* BreakpointValue.time: a str that ends with "%", or a number of seconds
Percent(n) == [kind |-> "%", n |-> n]
Seconds(n) == [kind |-> "s", n |-> n]
BreakpointValue(time, value) == [time |-> time, value |-> value]

is_percentage(point) == point.time.kind = "%"

get_absolute_time_as_seconds(point, duration) == 100 * point.time.n

\* (percentage / 100.0) * duration, or float(time).  Absolute times are held
\* in hundredths of a second, so that a percentage of a duration given in
\* whole seconds is exact.
get_absolute_time(point, duration) ==
    IF is_percentage(point) THEN point.time.n * duration
    ELSE 100 * point.time.n

\* a parameter of an operation: a Breakpoint, or a plain value
Breakpoint(points) == [type |-> "Breakpoint", points |-> points]
Scalar(v) == [type |-> "scalar", v |-> v]
is_automatable(param) == param.type = "Breakpoint"

\* list.sort(key=lambda x: x[0]): ascending, equal keys keep their order
RECURSIVE insert_by_time(_, _)
insert_by_time(sorted, x) ==
    IF sorted = <<>> THEN <<x>>
    ELSE IF Head(sorted)[1] <= x[1]
         THEN <<Head(sorted)>> \o insert_by_time(Tail(sorted), x)
         ELSE <<x>> \o sorted

RECURSIVE sort_by_time(_, _)
sort_by_time(pairs, sorted) ==
    IF pairs = <<>> THEN sorted
    ELSE sort_by_time(Tail(pairs), insert_by_time(sorted, Head(pairs)))

\* the (time, value) pairs in the order of self.points
absolute_pairs(breakpoint, duration) ==
    [i \in 1..Len(breakpoint.points) |->
        <<get_absolute_time(breakpoint.points[i], duration),
          breakpoint.points[i].value>>]

to_absolute_times_unsorted(breakpoint, duration) ==
    absolute_pairs(breakpoint, duration)

to_absolute_times(breakpoint, duration) ==
    sort_by_time(absolute_pairs(breakpoint, duration), <<>>)

beyond_duration_any_kind(breakpoint, duration) ==
    SelectSeq(breakpoint.points,
              LAMBDA pt : get_absolute_time(pt, duration) > 100 * duration)

\* the points to_absolute_times warns about: given in seconds, beyond duration
beyond_duration(breakpoint, duration) ==
    SelectSeq(breakpoint.points,
              LAMBDA pt : ~is_percentage(pt) /\ 100 * pt.time.n > 100 * duration)

\* ---------------------------------------------------------- executor.py
\* The executor threaded through a step: _counter, the calls the step has
\* issued so far, the pending exception ("none" when there is none) and the
\* ordinal of the call of this step that raises (0: no call raises), and the
\* durations that the step's successive "sndinfo len" calls report.
\* verbose is the executor's flag, stdout what the step has printed: each
\* entry with the ordinal `at` of the call that was the next to be issued
NewExecutor ==
    [counter |-> 0, calls |-> <<>>, err |-> "none", failAt |-> 0,
     durations |-> <<>>, verbose |-> FALSE, stdout |-> <<>>]

Arm(ex, k) == [ex EXCEPT !.calls = <<>>, !.failAt = k, !.stdout = <<>>]
Verbosity(ex, verbose) == [ex EXCEPT !.verbose = verbose]
Reporting(ex, durations) == [ex EXCEPT !.durations = durations]
Disarm(ex) == [ex EXCEPT !.failAt = 0, !.durations = <<>>]
Failed(ex) == ex.err # "none"
Raise(ex, e) == IF Failed(ex) THEN ex ELSE [ex EXCEPT !.err = e]

Call_keeps_going(ex, c, raises) ==
    LET calls == Append(ex.calls, c) IN
    [ex EXCEPT !.calls = calls,
               !.err = IF Failed(ex) THEN ex.err
                       ELSE IF Len(calls) = ex.failAt THEN raises ELSE "none"]

\* One call out of the process: recorded, and raising `raises` when it is the
\* call of this step chosen to fail.  Nothing is issued once an exception is
\* pending.
Call(ex, c, raises) ==
    IF Failed(ex) THEN ex
    ELSE LET calls == Append(ex.calls, c) IN
         [ex EXCEPT !.calls = calls,
                    !.err = IF Len(calls) = ex.failAt THEN raises ELSE "none"]

next_temp_file(ex, base_name, extension) ==
    [ex |-> [ex EXCEPT !.counter = @ + 1],
     out |-> Path("tmp", Append(base_name, <<"n", ex.counter + 1>>), extension)]

\* temp_input.name.replace(".wav", "_c{i}.wav")
channel_path(temp_input, i) ==
    IF temp_input.ext = "wav"
    THEN [temp_input EXCEPT !.stem = Append(@, <<"c", i>>)]
    ELSE temp_input

\* shutil.copy(src, dst) onto a file path: SameFileError (an OSError) when
\* src and dst are the same file, else the copy, which may raise
copy_file(ex, src, dst) ==
    IF src = dst THEN Raise(ex, "OSError")
    ELSE Call(ex, [kind |-> "copy", src |-> src, dst |-> dst], "OSError")

split_stereo_left_only(ex, audio_file) ==
    IF ~is_stereo(audio_file) THEN [ex |-> ex, out |-> <<audio_file>>]
    ELSE LET temp_input == Path("tmp", audio_file.path.stem, audio_file.path.ext)
             e1 == copy_file(ex, audio_file.path, temp_input)
             e2 == Call(e1, [kind |-> "housekeep", file |-> audio_file,
                             src |-> temp_input], "ErrorReturnCode")
         IN [ex |-> e2,
             out |-> <<AudioFile(channel_path(temp_input, 1), "wav", "MONO", 1)>>]

split_stereo_swapped(ex, audio_file) ==
    IF ~is_stereo(audio_file) THEN [ex |-> ex, out |-> <<audio_file>>]
    ELSE LET temp_input == Path("tmp", audio_file.path.stem, audio_file.path.ext)
             e1 == copy_file(ex, audio_file.path, temp_input)
             e2 == Call(e1, [kind |-> "housekeep", file |-> audio_file,
                             src |-> temp_input], "ErrorReturnCode")
         IN [ex |-> e2,
             out |-> <<AudioFile(channel_path(temp_input, 1), "wav", "MONO", 2),
                       AudioFile(channel_path(temp_input, 2), "wav", "MONO", 1)>>]

split_stereo(ex, audio_file) ==
    IF ~is_stereo(audio_file) THEN [ex |-> ex, out |-> <<audio_file>>]
    ELSE LET temp_input == Path("tmp", audio_file.path.stem, audio_file.path.ext)
             e1 == copy_file(ex, audio_file.path, temp_input)
             e2 == Call(e1, [kind |-> "housekeep", file |-> audio_file,
                             src |-> temp_input], "ErrorReturnCode")
         IN [ex |-> e2,
             out |-> <<AudioFile(channel_path(temp_input, 1), "wav", "MONO", 1),
                       AudioFile(channel_path(temp_input, 2), "wav", "MONO", 2)>>]

merge_stereo_any_format(ex, left, right, dst) ==
    IF ~is_mono(left) \/ ~is_mono(right) THEN
        [ex |-> Raise(ex, "ValueError"), out |-> left]
    ELSE [ex |-> Call(ex, [kind |-> "submix", left |-> left, right |-> right,
                           dst |-> dst], "ErrorReturnCode"),
          out |-> AudioFile(dst, "wav", "STEREO", None)]

merge_stereo(ex, left, right, dst) ==
    IF ~is_mono(left) \/ ~is_mono(right) THEN
        [ex |-> Raise(ex, "ValueError"), out |-> left]
    ELSE IF ~is_wav(left) \/ ~is_wav(right) THEN
        [ex |-> Raise(ex, "ValueError"), out |-> left]
    ELSE [ex |-> Call(ex, [kind |-> "submix", left |-> left, right |-> right,
                           dst |-> dst], "ErrorReturnCode"),
          out |-> AudioFile(dst, "wav", "STEREO", None)]

convert_to_ana_untagged(ex, audio_file) ==
    IF ~is_wav(audio_file) THEN [ex |-> ex, out |-> audio_file]
    ELSE LET t == next_temp_file(ex, audio_file.path.stem, "ana")
             output_file == AudioFile(t.out, "ana", audio_file.channels, None)
         IN [ex |-> Call(t.ex, [kind |-> "anal", file |-> audio_file,
                                out |-> output_file], "ErrorReturnCode"),
             out |-> output_file]

convert_to_ana(ex, audio_file) ==
    IF ~is_wav(audio_file) THEN [ex |-> ex, out |-> audio_file]
    ELSE LET t == next_temp_file(ex, audio_file.path.stem, "ana")
             output_file == AudioFile(t.out, "ana", audio_file.channels,
                                      audio_file.channel_index)
         IN [ex |-> Call(t.ex, [kind |-> "anal", file |-> audio_file,
                                out |-> output_file], "ErrorReturnCode"),
             out |-> output_file]

convert_to_wav_skipped(ex, audio_file) == [ex |-> ex, out |-> audio_file]

convert_to_wav(ex, audio_file) ==
    IF ~is_ana(audio_file) THEN [ex |-> ex, out |-> audio_file]
    ELSE LET t == next_temp_file(ex, audio_file.path.stem, "wav")
             output_file == AudioFile(t.out, "wav", audio_file.channels,
                                      audio_file.channel_index)
         IN [ex |-> Call(t.ex, [kind |-> "synth", file |-> audio_file,
                                out |-> output_file], "ErrorReturnCode"),
             out |-> output_file]


RECURSIVE prepare_channels_unchecked(_, _, _, _)
prepare_channels_unchecked(ex, input_files, required_channels, prepared) ==
    IF input_files = <<>> \/ Failed(ex) THEN [ex |-> ex, out |-> prepared]
    ELSE LET audio_file == Head(input_files) IN
         IF required_channels = "MONO" /\ is_stereo(audio_file) THEN
             LET mono_files == split_stereo(ex, audio_file) IN
             prepare_channels_unchecked(mono_files.ex, Tail(input_files),
                                        required_channels, prepared \o mono_files.out)
         ELSE prepare_channels_unchecked(ex, Tail(input_files), required_channels,
                                         Append(prepared, audio_file))

\* prepare_inputs, first loop: "Handle channel conversion"
RECURSIVE prepare_channels(_, _, _, _)
prepare_channels(ex, input_files, required_channels, prepared) ==
    IF input_files = <<>> \/ Failed(ex) THEN [ex |-> ex, out |-> prepared]
    ELSE LET audio_file == Head(input_files) IN
         IF required_channels = "MONO" /\ is_stereo(audio_file) THEN
             LET mono_files == split_stereo(ex, audio_file) IN
             prepare_channels(mono_files.ex, Tail(input_files), required_channels,
                              prepared \o mono_files.out)
         ELSE IF required_channels = "STEREO" /\ is_mono(audio_file) THEN
             [ex |-> Raise(ex, "ValueError"), out |-> prepared]
         ELSE prepare_channels(ex, Tail(input_files), required_channels,
                               Append(prepared, audio_file))

\* prepare_inputs, second loop: "Handle format conversion"
RECURSIVE prepare_format(_, _, _, _)
prepare_format(ex, prepared, required_format, converted) ==
    IF prepared = <<>> \/ Failed(ex) THEN [ex |-> ex, out |-> converted]
    ELSE LET audio_file == Head(prepared)
             c == IF required_format = "ana" /\ is_wav(audio_file)
                  THEN convert_to_ana(ex, audio_file)
                  ELSE IF required_format = "wav" /\ is_ana(audio_file)
                  THEN convert_to_wav(ex, audio_file)
                  ELSE [ex |-> ex, out |-> audio_file]
         IN prepare_format(c.ex, Tail(prepared), required_format,
                           Append(converted, c.out))

\* out: the returned list; prepared: the list between the two loops
prepare_inputs(ex, input_files, required_format, required_channels) ==
    LET p == prepare_channels(ex, input_files, required_channels, <<>>)
        c == prepare_format(p.ex, p.out, required_format, <<>>)
    IN [ex |-> c.ex, out |-> c.out, prepared |-> p.out]

RECURSIVE channel_keys_per_file(_, _)
channel_keys_per_file(prepared_inputs, keys) ==
    IF prepared_inputs = <<>> THEN keys
    ELSE channel_keys_per_file(Tail(prepared_inputs),
                               Append(keys, Head(prepared_inputs).channel_index))

\* get_duration: one "sndinfo len" call on the file; it raises RuntimeError
\* when the call raises or reports no duration
get_duration(ex, audio_file) ==
    LET k == Len(SelectSeq(ex.calls, LAMBDA c : c.kind = "sndinfo")) + 1
        duration == ex.durations[k]
    IN [ex |-> Call(ex, [kind |-> "sndinfo", file |-> audio_file,
                         duration |-> duration], "RuntimeError"),
        out |-> duration]

\* Breakpoint.to_file_content: a line "{time:.6f} {value:.6f}" per pair, here
\* the pair of the two numbers in millionths
to_file_content(breakpoint, duration) ==
    LET absolute_points == to_absolute_times(breakpoint, duration)
    IN [i \in 1..Len(absolute_points) |->
           <<10000 * absolute_points[i][1], 1000000 * absolute_points[i][2]>>]

\* print(...) under "if self.verbose"
echo(ex, line) ==
    IF ex.verbose /\ ~Failed(ex)
    THEN [ex EXCEPT !.stdout = Append(@, [line EXCEPT !.at = Len(ex.calls) + 1])]
    ELSE ex

\* write_breakpoint_file: a new path in temp_dir, and the content written to it
write_breakpoint_file(ex, breakpoint, duration, base_name) ==
    LET t == next_temp_file(ex, base_name, "txt")
    IN [ex |-> echo(Call(t.ex, [kind |-> "write", dst |-> t.out,
                                content |-> to_file_content(breakpoint, duration)],
                         "OSError"),
                    [kind |-> "Created breakpoint file", what |-> t.out, at |-> 0]),
        out |-> t.out]

\* str(bp_file) as a param
PathParam(path) == [type |-> "str", v |-> path]

\* _process_breakpoints, the loop over operation.params (i counts from 1 here,
\* the base name carries the code's index i - 1)
RECURSIVE process_params(_, _, _, _, _)
process_params(ex, params, i, duration, processed_params) ==
    IF i > Len(params) \/ Failed(ex) THEN [ex |-> ex, out |-> processed_params]
    ELSE IF is_automatable(params[i])
    THEN LET w == write_breakpoint_file(ex, params[i], duration,
                                        <<<<"param", i - 1>>>>)
         IN process_params(w.ex, params, i + 1, duration,
                           Append(processed_params, PathParam(w.out)))
    ELSE process_params(ex, params, i + 1, duration,
                        Append(processed_params, params[i]))

operation_after_in_place(operation) ==
    [operation EXCEPT !.params =
        [i \in 1..Len(@) |->
            IF is_automatable(@[i])
            THEN PathParam(Path("tmp", <<<<"param", i - 1>>>>, "txt"))
            ELSE @[i]]]

\* the operation _process_breakpoints was handed, as its caller holds it after
\* the call: the method assigns to no field of it and to no element of its
\* params
operation_after(operation) == operation

\* _process_breakpoints, from "Process parameters" on: d is what get_duration
\* returned; replace(operation, params=processed_params)
replace_params(r, operation) ==
    [ex |-> r.ex, out |-> [operation EXCEPT !.params = r.out]]

with_duration(d, operation) ==
    replace_params(process_params(d.ex, operation.params, 1, d.out, <<>>),
                   operation)

process_breakpoints_cached(ex, operation, input_files) ==
    IF ~\E i \in 1..Len(operation.params) : is_automatable(operation.params[i])
    THEN [ex |-> ex, out |-> operation]
    ELSE with_duration(
             [get_duration(ex, input_files[1]) EXCEPT
                 !.out = SelectSeq(ex.calls \o <<[kind |-> "sndinfo", duration |-> @]>>,
                                   LAMBDA c : c.kind = "sndinfo")[1].duration],
             operation)

\* _process_breakpoints: `out` is the operation it returns
process_breakpoints(ex, operation, input_files) ==
    IF ~\E i \in 1..Len(operation.params) : is_automatable(operation.params[i])
    THEN [ex |-> ex, out |-> operation]
    ELSE with_duration(get_duration(ex, input_files[1]), operation)

\* _execute_cdp_command: the echo under verbose, then the program
execute_cdp_command(ex, args, output_file) ==
    Call(echo(ex, [kind |-> "Executing", what |-> args, at |-> 0]),
         [kind |-> "cdp", args |-> args, out |-> output_file], "RuntimeError")

\* processed_operation.get_command_args(...) and _execute_cdp_command: b is
\* what _process_breakpoints returned
invoke(b, input_files, output_file) ==
    execute_cdp_command(b.ex, get_command_args(b.out, input_files, output_file),
                        output_file)

\* the keys of the dict `channels`, in insertion order
RECURSIVE channel_keys(_, _)
channel_keys(prepared_inputs, keys) ==
    IF prepared_inputs = <<>> THEN keys
    ELSE LET k == Head(prepared_inputs).channel_index IN
         channel_keys(Tail(prepared_inputs),
                      IF \E i \in 1..Len(keys) : keys[i] = k THEN keys
                      ELSE Append(keys, k))

\* channels[channel_idx]
channel_group(prepared_inputs, channel_idx) ==
    SelectSeq(prepared_inputs, LAMBDA f : f.channel_index = channel_idx)

\* execute_operation, "Process each channel"
RECURSIVE process_channels(_, _, _, _, _, _)
process_channels(ex, operation, prepared_inputs, keys, output_base_name, output_files) ==
    IF keys = <<>> \/ Failed(ex)
    THEN [ex |-> ex, out |-> output_files, template |-> operation]
    ELSE LET channel_idx == Head(keys)
             channel_files == channel_group(prepared_inputs, channel_idx)
             base == IF channel_idx # None
                     THEN Append(output_base_name, <<"c", channel_idx>>)
                     ELSE output_base_name
             t == next_temp_file(ex, base, operation.output_format)
             output_file == AudioFile(t.out, operation.output_format, "MONO",
                                      channel_idx)
             e == invoke(process_breakpoints(t.ex, operation, channel_files),
                         channel_files, output_file)
         IN process_channels(e, operation_after(operation),
                             prepared_inputs, Tail(keys),
                             output_base_name, Append(output_files, output_file))

\* execute_operation, "Process as single operation"
process_single(ex, operation, prepared_inputs, output_base_name) ==
    IF Failed(ex) THEN [ex |-> ex, out |-> <<>>, template |-> operation]
    ELSE LET t == next_temp_file(ex, output_base_name, operation.output_format)
             output_file == AudioFile(t.out, operation.output_format,
                                      operation.channels, None)
         IN [ex |-> invoke(process_breakpoints(t.ex, operation, prepared_inputs),
                           prepared_inputs, output_file),
             out |-> <<output_file>>,
             template |-> operation_after(operation)]

execute_operation(ex, operation, input_files, output_base_name) ==
    LET p == prepare_inputs(ex, input_files, operation.format, operation.channels)
        r == IF operation.channels = "MONO"
             THEN process_channels(p.ex, operation, p.out,
                                   channel_keys(p.out, <<>>), output_base_name, <<>>)
             ELSE process_single(p.ex, operation, p.out, output_base_name)
    IN [ex |-> r.ex, out |-> r.out, prepared |-> p.prepared, negotiated |-> p.out,
        template |-> r.template]

\* get_file_info for an existing path with suffix .wav or .ana; `channels` is
\* what sfprops reports for it
get_file_info(ex, path, channels) ==
    IF path.ext = "ana" THEN [ex |-> ex, fmt |-> "ana", channels |-> "MONO"]
    ELSE [ex |-> Call(ex, [kind |-> "sfprops", src |-> path], "RuntimeError"),
          fmt |-> "wav", channels |-> channels]


\* ---------------------------------------------------------- pipeline.py
VARIABLES
    pc,               \* where Pipeline.run is
    opts,             \* run's arguments output_channels, output_format and
                      \* overwrite, each "pending" until the step that reads it
    audio_files,      \* the probed inputs
    input_is_stereo,
    current_files,
    opIndex,          \* i of "for i, operation in enumerate(self.operations)"
    monoOnly,         \* every operation of the chain so far requires MONO
    executor,         \* the PipelineExecutor and the calls of the latest step
    outFile,          \* the file at output_path: "absent", "old" (there before the
                      \* run), "unlinked" (the old one removed by the run), "new"
    result,           \* the AudioFile run returns, <<>> before it is known
    hist,             \* what the latest step was handed and what it derived
    scratch           \* the executor's temp_dir: "none" before there is an
                      \* executor, then "present" or "deleted"

vars == <<pc, opts, audio_files, input_is_stereo, current_files, opIndex,
          monoOnly, executor, outFile, result, hist, scratch>>

OutputChannels == {"None", "MONO", "STEREO"}
OutputFormats == {"None", "wav", "ana"}
Operations ==
    {CDPOperation(f, c, o, m) : f \in FileFormat, c \in ChannelMode,
                                o \in FileFormat, m \in BOOLEAN}

\* run does not change its arguments, so the model draws each of them at the
\* step that uses it and records it in opts from then on (temp_dir, which only
\* names the directory, with keep_temp at the step that cleans up)
NoOpts == [output_channels |-> "pending", output_format |-> "pending",
           overwrite |-> "pending", keep_temp |-> "pending",
           temp_dir |-> "pending"]

InitCommon ==
    /\ opts = NoOpts
    /\ audio_files = <<>>
    /\ input_is_stereo = FALSE
    /\ current_files = <<>>
    /\ opIndex = 0
    /\ monoOnly = TRUE
    /\ executor = NewExecutor
    /\ outFile \in {"absent", "old"}
    /\ result = <<>>
    /\ hist = [step |-> "none"]

Init == pc = "INIT" /\ scratch = "none" /\ InitCommon

output_path == Path("out", <<<<"out", 0>>>>, "wav")

\* a step of run ends: on an exception the with-block is left (cleanup follows)
After(ex, next) == IF Failed(ex) THEN "CLEANUP" ELSE next

\* run, lines 70-82: an existing output is unlinked when overwrite is set, the
\* executor is created
Run(overwrite) ==
    /\ pc = "INIT"
    /\ opts' = [opts EXCEPT !.overwrite = IF overwrite THEN "True" ELSE "False"]
    /\ outFile' = IF overwrite /\ outFile # "absent" THEN "unlinked" ELSE outFile
    /\ executor' = NewExecutor
    /\ pc' = "PROBE"
    /\ hist' = [step |-> "run"]
    /\ scratch' = "present"
    /\ UNCHANGED <<audio_files, input_is_stereo, current_files, opIndex,
                   monoOnly, result>>

\* run, lines 85-95: one iteration of "for input_file in input_files".  The
\* path may not exist (FileNotFoundError); sfprops may raise, or report a count
\* that is no ChannelMode, and get_file_info then raises RuntimeError.
LoadInput(exists, ext, channels, raises) ==
    /\ pc = "PROBE"
    /\ Len(audio_files) < MaxInputs
    /\ LET failAt == IF raises THEN 1 ELSE 0
           input_path == Path("in", <<<<"in", Len(audio_files) + 1>>>>, ext)
           ex == Arm(executor, failAt)
           info == get_file_info(ex, input_path, channels)
           e == IF ~exists THEN Raise(ex, "FileNotFoundError") ELSE info.ex
       IN /\ executor' = Disarm(e)
          /\ audio_files' = IF Failed(e) THEN audio_files
                            ELSE Append(audio_files,
                                        AudioFile(input_path, info.fmt,
                                                  info.channels, None))
          /\ pc' = After(e, "PROBE")
          /\ hist' = [step |-> "probe", failAt |-> failAt]
    /\ UNCHANGED <<scratch, opts, input_is_stereo, current_files, opIndex, monoOnly,
                   outFile, result>>

\* run, lines 97-101
BeginOperations ==
    /\ pc = "PROBE"
    /\ Len(audio_files) >= 1
    /\ input_is_stereo' = (\E i \in 1..Len(audio_files) : is_stereo(audio_files[i]))
    /\ current_files' = audio_files
    /\ pc' = "OPS"
    /\ hist' = [step |-> "begin"]
    /\ executor' = Arm(executor, 0)
    /\ UNCHANGED <<scratch, opts, audio_files, opIndex, monoOnly, outFile, result>>

\* the ordinals a step may choose its raising call from: none (0), or any of
\* the calls the step issues when none raises
FailPoints(calls) == 0..Len(calls)

\* run, lines 102-108: one iteration of the loop over self.operations
ExecuteOperation(operation) ==
    /\ pc = "OPS"
    /\ opIndex < MaxOps
    /\ \E failAt \in FailPoints(execute_operation(Arm(executor, 0), operation,
                        current_files, <<<<"op", opIndex>>>>).ex.calls) :
         LET r == execute_operation(Arm(executor, failAt), operation,
                                    current_files, <<<<"op", opIndex>>>>)
         IN /\ executor' = Disarm(r.ex)
            /\ current_files' = IF Failed(r.ex) THEN current_files ELSE r.out
            /\ pc' = After(r.ex, "OPS")
            /\ hist' = [step |-> "op", failAt |-> failAt, operation |-> operation,
                        input_files |-> current_files, prepared |-> r.prepared,
                        negotiated |-> r.negotiated]
    /\ opIndex' = opIndex + 1
    /\ monoOnly' = (monoOnly /\ operation.channels = "MONO")
    /\ UNCHANGED <<scratch, opts, audio_files, input_is_stereo, outFile, result>>

RECURSIVE convert_all(_, _, _, _)
convert_all(ex, files, output_format, converted) ==
    IF files = <<>> \/ Failed(ex) THEN [ex |-> ex, out |-> converted]
    ELSE LET c == IF output_format = "wav" THEN convert_to_wav(ex, Head(files))
                  ELSE convert_to_ana(ex, Head(files))
         IN convert_all(c.ex, Tail(files), output_format, Append(converted, c.out))

\* run, lines 110-114: "Convert output to desired format"
FinalizeRepresentation(requested) ==
    /\ pc = "OPS"
    /\ LET output_format == IF requested = "None" THEN "wav" ELSE requested IN
       /\ opts' = [opts EXCEPT !.output_format = requested]
       /\ \E failAt \in FailPoints(convert_all(Arm(executor, 0), current_files,
                                               output_format, <<>>).ex.calls) :
            LET r == convert_all(Arm(executor, failAt), current_files,
                                 output_format, <<>>)
            IN /\ executor' = Disarm(r.ex)
               /\ current_files' = IF Failed(r.ex) THEN current_files ELSE r.out
               /\ pc' = After(r.ex, "FINALIZE_CHANNELS")
               /\ hist' = [step |-> "representation", failAt |-> failAt,
                           input_files |-> current_files]
    /\ UNCHANGED <<scratch, audio_files, input_is_stereo, opIndex, monoOnly,
                   outFile, result>>

first_with_index_last(files, idx, default) == files[Len(files)]

\* next((f for f in current_files if f.channel_index == idx), default)
RECURSIVE first_with_index(_, _, _)
first_with_index(files, idx, default) ==
    IF files = <<>> THEN default
    ELSE IF Head(files).channel_index = idx THEN Head(files)
    ELSE first_with_index(Tail(files), idx, default)

\* shutil.copy(result.path, output_path); result.path = output_path
copy_to_output(ex, file) ==
    [ex |-> Call(ex, [kind |-> "copy", src |-> file.path, dst |-> output_path],
                 "OSError"),
     out |-> [file EXCEPT !.path = output_path]]

\* run, lines 118-138: "Need stereo output"
finalize_stereo(ex, files) ==
    IF Len(files) = 2 THEN
        LET left0 == first_with_index(files, 1, files[1])
            right0 == first_with_index(files, 2, files[2])
            l == IF ~is_wav(left0) THEN convert_to_wav(ex, left0)
                 ELSE [ex |-> ex, out |-> left0]
            r == IF Failed(l.ex) THEN [ex |-> l.ex, out |-> right0]
                 ELSE IF ~is_wav(right0) THEN convert_to_wav(l.ex, right0)
                 ELSE [ex |-> l.ex, out |-> right0]
        IN IF Failed(r.ex) THEN r
           ELSE merge_stereo(r.ex, l.out, r.out, output_path)
    ELSE IF Len(files) = 1 /\ is_stereo(files[1]) THEN copy_to_output(ex, files[1])
    ELSE [ex |-> Raise(ex, "ValueError"), out |-> <<>>]

finalize_mono_take_first(ex, files) == copy_to_output(ex, files[1])

\* run, lines 140-150: "Mono output or multiple outputs"
finalize_mono(ex, files) ==
    IF Len(files) = 1 THEN copy_to_output(ex, files[1])
    ELSE [ex |-> Raise(ex, "ValueError"), out |-> <<>>]

\* run, lines 116-150: "Handle channel configuration for output"
finalize_channels(ex, files, output_channels, is_stereo_input) ==
    IF output_channels = "STEREO" \/ (output_channels = "None" /\ is_stereo_input)
    THEN finalize_stereo(ex, files)
    ELSE finalize_mono(ex, files)

Wrote_on_raise(ex) ==
    /\ ex.calls # <<>>
    /\ ex.calls[Len(ex.calls)].kind \in {"copy", "submix"}
    /\ ex.calls[Len(ex.calls)].dst = output_path

\* the step wrote output_path: its last call is a copy or an interleave onto
\* it, and that call did not raise
Wrote(ex) ==
    /\ ~Failed(ex)
    /\ ex.calls # <<>>
    /\ ex.calls[Len(ex.calls)].kind \in {"copy", "submix"}
    /\ ex.calls[Len(ex.calls)].dst = output_path

FinalizeChannels(output_channels) ==
    /\ pc = "FINALIZE_CHANNELS"
    /\ opts' = [opts EXCEPT !.output_channels = output_channels]
    /\ \E failAt \in FailPoints(finalize_channels(Arm(executor, 0), current_files,
                            output_channels, input_is_stereo).ex.calls) :
         LET r == finalize_channels(Arm(executor, failAt), current_files,
                                    output_channels, input_is_stereo)
         IN /\ executor' = Disarm(r.ex)
            /\ result' = IF Failed(r.ex) THEN result ELSE r.out
            /\ outFile' = IF Wrote(r.ex) THEN "new" ELSE outFile
            /\ hist' = [step |-> "channels", failAt |-> failAt,
                        input_files |-> current_files]
    /\ pc' = "CLEANUP"
    /\ UNCHANGED <<scratch, audio_files, input_is_stereo, current_files, opIndex, monoOnly>>

\* __init__, lines 34-40: temp_dir given, or a tempfile.TemporaryDirectory
TempDirs == {"None", "given"}

\* cleanup, lines 48-53: what becomes of temp_dir
cleanup(keep_temp, temp_dir, dir) ==
    IF ~keep_temp /\ temp_dir = "None" THEN "deleted"
    ELSE IF ~keep_temp THEN "deleted"
    ELSE dir

\* The executor is a local of run.  A tempfile.TemporaryDirectory removes its
\* directory when the object is destroyed, which is when run returns where
\* objects are reclaimed by reference count and later elsewhere; while an
\* exception propagates its traceback keeps the executor alive.
after_return(temp_dir, raised, dir) ==
    IF temp_dir = "None" /\ ~raised THEN {dir, "deleted"} ELSE {dir}

\* leaving the with-block (__exit__ calls cleanup), then run returns or the
\* exception propagates
Cleanup(keep_temp, temp_dir) ==
    /\ pc = "CLEANUP"
    /\ pc' = IF Failed(executor) THEN "FAILED" ELSE "SUCCESS"
    /\ opts' = [opts EXCEPT !.keep_temp = IF keep_temp THEN "True" ELSE "False",
                            !.temp_dir = temp_dir]
    /\ scratch' \in after_return(temp_dir, Failed(executor),
                                 cleanup(keep_temp, temp_dir, scratch))
    /\ UNCHANGED <<audio_files, input_is_stereo, current_files, opIndex,
                   monoOnly, executor, outFile, result, hist>>

Next ==
    \/ \E overwrite \in BOOLEAN : Run(overwrite)
    \/ \E exists \in BOOLEAN, ext \in FileFormat, ch \in ChannelMode,
          raises \in BOOLEAN :
          LoadInput(exists, ext, ch, raises)
    \/ BeginOperations
    \/ \E operation \in Operations : ExecuteOperation(operation)
    \/ \E output_format \in OutputFormats : FinalizeRepresentation(output_format)
    \/ \E output_channels \in OutputChannels : FinalizeChannels(output_channels)
    \/ \E keep_temp \in BOOLEAN, temp_dir \in TempDirs : Cleanup(keep_temp, temp_dir)

Spec == Init /\ [][Next]_vars

\* ------------------------------------------- the executor's methods, called
\* directly: one call of prepare_inputs or merge_stereo on a new executor, with
\* any well-formed AudioFile values (a channel_index only on a MONO file)
Shapes ==
    {sh \in [format : FileFormat, channels : ChannelMode,
             channel_index : {None, 1, 2}] :
        sh.channel_index # None => sh.channels = "MONO"}

\* the i-th argument: an AudioFile of shape sh with a path of its own
Given(sh, i) ==
    AudioFile(Path("in", <<<<"in", i>>>>, sh.format), sh.format, sh.channels,
              sh.channel_index)

FileLists ==
    UNION {{[i \in 1..n |-> Given(shs[i], i)] : shs \in [1..n -> Shapes]} :
           n \in 1..MaxInputs}

\* two files of the same name in different directories
Namesakes ==
    {<<Given(a, 1), [Given(b, 1) EXCEPT !.path.dir = "other"]>> :
     a \in Shapes, b \in Shapes}

InitExec == pc = "API" /\ scratch = "present" /\ InitCommon

ApiPrepareInputs(input_files, required_format, required_channels) ==
    /\ pc = "API"
    /\ \E failAt \in FailPoints(prepare_inputs(Arm(executor, 0), input_files,
                        required_format, required_channels).ex.calls) :
         LET r == prepare_inputs(Arm(executor, failAt), input_files,
                                 required_format, required_channels)
         IN /\ executor' = Disarm(r.ex)
            /\ hist' = [step |-> "prepare_inputs", failAt |-> failAt,
                        input_files |-> input_files,
                        required_format |-> required_format,
                        required_channels |-> required_channels,
                        prepared |-> r.prepared, out |-> r.out]
    /\ pc' = "RETURNED"
    /\ UNCHANGED <<scratch, opts, audio_files, input_is_stereo, current_files, opIndex,
                   monoOnly, outFile, result>>

ApiMergeStereo(left, right) ==
    /\ pc = "API"
    /\ \E failAt \in FailPoints(merge_stereo(Arm(executor, 0), left, right,
                                             output_path).ex.calls) :
         LET r == merge_stereo(Arm(executor, failAt), left, right, output_path)
         IN /\ executor' = Disarm(r.ex)
            /\ hist' = [step |-> "merge_stereo", failAt |-> failAt,
                        left |-> left, right |-> right, out |-> r.out]
            /\ outFile' = IF Wrote(r.ex) THEN "new" ELSE outFile
    /\ pc' = "RETURNED"
    /\ UNCHANGED <<scratch, opts, audio_files, input_is_stereo, current_files, opIndex,
                   monoOnly, result>>

\* the Breakpoint values handed to to_absolute_times: up to MaxPoints points
\* in any order, each time a percentage or a number of seconds
Times ==
    {Percent(0), Percent(50), Percent(100), Percent(150),
     Seconds(0), Seconds(1), Seconds(3)}
Points == {BreakpointValue(t, v) : t \in Times, v \in {0, 1}}
\* the Breakpoints of n points
Breakpoints(n) == {Breakpoint(pts) : pts \in [1..n -> Points]}
Durations == {1, 2}

ApiToAbsoluteTimes(breakpoint, duration) ==
    /\ pc = "API"
    /\ hist' = [step |-> "to_absolute_times", breakpoint |-> breakpoint,
                duration |-> duration,
                out |-> to_absolute_times(breakpoint, duration),
                warned |-> beyond_duration(breakpoint, duration)]
    /\ pc' = "RETURNED"
    /\ UNCHANGED <<scratch, opts, audio_files, input_is_stereo, current_files,
                   opIndex, monoOnly, executor, outFile, result>>

\* the operations handed to get_command_args: with and without a subcommand
\* ("" when there is none), with and without a mode, single- and multi-input,
\* with no, one and three params
ParamLists == {<<>>, <<Scalar(2)>>, <<Scalar(1), Scalar(4), Scalar(3)>>}
CommandOperations ==
    {[CDPOperation("ana", "MONO", "ana", m) EXCEPT
         !.subcommand = sc, !.mode = md, !.params = ps] :
     m \in BOOLEAN, sc \in {"", "sub"}, md \in {None, 1}, ps \in ParamLists}

ApiGetCommandArgs(operation, input_files) ==
    /\ pc = "API"
    /\ LET output_file == AudioFile(Path("tmp", <<<<"output", 0>>>>, "ana"),
                                    "ana", "MONO", None)
       IN hist' = [step |-> "get_command_args", operation |-> operation,
                   input_files |-> input_files, output_file |-> output_file,
                   out |-> get_command_args(operation, input_files, output_file)]
    /\ pc' = "RETURNED"
    /\ UNCHANGED <<scratch, opts, audio_files, input_is_stereo, current_files,
                   opIndex, monoOnly, executor, outFile, result>>

\* the operations handed to execute_operation directly: every requirement,
\* single- and multi-input, with params that hold no, one and two Breakpoints
Fade == Breakpoint(<<BreakpointValue(Percent(100), 1), BreakpointValue(Seconds(1), 0)>>)
Dip == Breakpoint(<<BreakpointValue(Percent(50), 1)>>)
AutomatedParamLists == {<<Scalar(2)>>, <<Fade>>, <<Fade, Scalar(2), Dip>>}
AutomatedOperations ==
    {[CDPOperation(f, c, "wav", m) EXCEPT !.params = ps] :
     f \in FileFormat, c \in ChannelMode, m \in BOOLEAN,
     ps \in AutomatedParamLists}

\* the wav files handed to it: mono (untagged, left, right) and stereo
WavLists ==
    {files \in FileLists : \A i \in 1..Len(files) : is_wav(files[i])}

\* one wav file, for the calls on a verbose executor
SingleWav == {files \in WavLists : Len(files) = 1}

\* what the "sndinfo len" calls of one execute_operation report, by ordinal:
\* there is at most one call per channel group (None, 1, 2)
DurationReports == [1..3 -> Durations]

\* execute_operation on an executor made with the given verbose flag
ApiExecuteOperation(operation, input_files, durations, verbose) ==
    /\ pc = "API"
    /\ \E failAt \in FailPoints(execute_operation(
                        Reporting(Arm(executor, 0), durations), operation,
                        input_files, <<<<"op", 0>>>>).ex.calls) :
         LET r == execute_operation(
                      Verbosity(Reporting(Arm(executor, failAt), durations), verbose),
                      operation, input_files, <<<<"op", 0>>>>)
         IN /\ executor' = Disarm(r.ex)
            /\ hist' = [step |-> "execute_operation", failAt |-> failAt,
                        operation |-> operation, input_files |-> input_files,
                        negotiated |-> r.negotiated, template |-> r.template,
                        out |-> r.out]
    /\ pc' = "RETURNED"
    /\ UNCHANGED <<scratch, opts, audio_files, input_is_stereo, current_files,
                   opIndex, monoOnly, outFile, result>>

\* one call on a new executor; the call is chosen only when none was made yet
NextExec ==
    \/ /\ pc = "API"
       /\ \E input_files \in FileLists \cup Namesakes,
             required_format \in FileFormat, required_channels \in ChannelMode :
             ApiPrepareInputs(input_files, required_format, required_channels)
    \/ /\ pc = "API"
       /\ \E l \in Shapes, r \in Shapes : ApiMergeStereo(Given(l, 1), Given(r, 2))
    \/ /\ pc = "API"
       /\ \E operation \in AutomatedOperations, verbose \in BOOLEAN :
             \E input_files \in IF verbose THEN SingleWav ELSE WavLists,
                durations \in DurationReports :
                ApiExecuteOperation(operation, input_files, durations, verbose)
    \/ /\ pc = "API"
       /\ \E operation \in CommandOperations, input_files \in FileLists :
             ApiGetCommandArgs(operation, input_files)
    \/ /\ pc = "API"
       /\ \E n \in 0..MaxPoints, duration \in Durations :
             \E breakpoint \in Breakpoints(n) :
             ApiToAbsoluteTimes(breakpoint, duration)

SpecExec == InitExec /\ [][NextExec]_vars


\* ------------------------------------------------------------- properties
Range(s) == {s[i] : i \in 1..Len(s)}
Tags(files) == {f.channel_index : f \in Range(files)}
Tagged(files, idx) == SelectSeq(files, LAMBDA f : f.channel_index = idx)
PathsOf(files) == [i \in 1..Len(files) |-> files[i].path]
CdpCalls(calls) == SelectSeq(calls, LAMBDA c : c.kind = "cdp")
CallsOfKind(calls, kind) == SelectSeq(calls, LAMBDA c : c.kind = kind)
InputPaths(c) ==
    LET ins == SelectSeq(c.args, LAMBDA a : a.t = "input")
    IN [i \in 1..Len(ins) |-> ins[i].v]
IsPrefix(s, t) == Len(s) <= Len(t) /\ SubSeq(t, 1, Len(s)) = s

\* the latest step was an operation, and execute_operation returned
OperationReturned == hist.step = "op" /\ ~Failed(executor)

\* C1: when an operation that requires MONO has returned, it was invoked once
\* per distinct channel_index of the negotiated list (None being a group of its
\* own), each invocation on paths of that group only, and it returned one MONO
\* file per group, carrying the group's channel_index.
C1_OneInvocationPerGroup ==
    (OperationReturned /\ hist.operation.channels = "MONO") =>
        LET inv == CdpCalls(executor.calls)
            tags == Tags(hist.negotiated)
        IN /\ Len(inv) = Cardinality(tags)
           /\ Len(current_files) = Cardinality(tags)
           /\ \A t \in tags :
                Cardinality({i \in 1..Len(inv) : inv[i].out.channel_index = t}) = 1
           /\ \A i \in 1..Len(inv) :
                /\ current_files[i] = inv[i].out
                /\ is_mono(inv[i].out)
                /\ InputPaths(inv[i]) # <<>>
                /\ Range(InputPaths(inv[i])) \subseteq
                     {f.path : f \in {g \in Range(hist.negotiated) :
                                        g.channel_index = inv[i].out.channel_index}}

\* a MONO operation returned three files: an untagged, a left and a right group
C1_Witness ==
    /\ OperationReturned
    /\ hist.operation.channels = "MONO"
    /\ Len(hist.negotiated) = 3
    /\ Tags(current_files) = {None, 1, 2}

AllStereo(files) == \A i \in 1..Len(files) : is_stereo(files[i])

\* C2: when a multi-input operation that requires MONO has returned from a
\* list of N stereo files, it was invoked exactly twice: once on the N
\* left-tagged negotiated files and once on the N right-tagged ones, each list
\* in the order of the stereo files they were split from; it returned exactly
\* one left-tagged and one right-tagged file.
C2_MultiInputByTag ==
    (/\ OperationReturned
     /\ hist.operation.channels = "MONO"
     /\ hist.operation.multi_input
     /\ AllStereo(hist.input_files)) =>
        LET inv == CdpCalls(executor.calls)
            N == Len(hist.input_files)
            lefts == Tagged(hist.negotiated, 1)
            rights == Tagged(hist.negotiated, 2)
        IN /\ Len(inv) = 2
           /\ Len(lefts) = N /\ Len(rights) = N
           /\ \A k \in 1..N :
                /\ IsPrefix(hist.input_files[k].path.stem, lefts[k].path.stem)
                /\ IsPrefix(hist.input_files[k].path.stem, rights[k].path.stem)
           /\ InputPaths(inv[1]) = PathsOf(lefts)
           /\ InputPaths(inv[2]) = PathsOf(rights)
           /\ Len(current_files) = 2
           /\ current_files[1] = inv[1].out /\ current_files[1].channel_index = 1
           /\ current_files[2] = inv[2].out /\ current_files[2].channel_index = 2

\* a multi-input MONO operation returned from two stereo files
C2_Witness ==
    /\ OperationReturned
    /\ hist.operation.channels = "MONO"
    /\ hist.operation.multi_input
    /\ AllStereo(hist.input_files)
    /\ Len(hist.input_files) = 2
    /\ Len(InputPaths(CdpCalls(executor.calls)[1])) = 2


\* an exception raised by a call out of the process (not by a check of run or
\* of the executor)
CallRaised == executor.err \in {"ErrorReturnCode", "RuntimeError", "OSError"}

Distinct(paths) ==
    \A i, j \in 1..Len(paths) : i # j => paths[i] # paths[j]

\* one stereo input, at least one operation so far, every one requiring MONO,
\* and no output_channels given
StereoThroughMono ==
    /\ Len(audio_files) = 1
    /\ is_stereo(audio_files[1])
    /\ opIndex >= 1
    /\ monoOnly
    /\ opts.output_channels \in {"pending", "None"}

\* C3: in a run with one stereo input, a chain of MONO operations and no
\* output_channels: (a) a run that ends successfully returns one STEREO wav
\* file at output_path and has written it; (b) the run fails only when a call
\* out of the process raises; (c) every operation is invoked once on the left
\* and once on the right file, the files handed to it and returned by it having
\* pairwise distinct paths; (d) the interleave call gets the left-tagged file
\* (or its conversion) as left and the right-tagged one as right.
C3_StereoThroughMonoChain ==
    StereoThroughMono =>
        /\ pc = "SUCCESS" =>
              /\ result = AudioFile(output_path, "wav", "STEREO", None)
              /\ outFile = "new"
        /\ Failed(executor) => CallRaised
        /\ OperationReturned =>
              LET inv == CdpCalls(executor.calls) IN
              /\ Len(inv) = 2
              /\ Len(hist.negotiated) = 2
              /\ Distinct(PathsOf(hist.negotiated) \o PathsOf(current_files))
              /\ \E l, r \in 1..2 :
                    /\ l # r
                    /\ InputPaths(inv[l]) = PathsOf(Tagged(hist.negotiated, 1))
                    /\ InputPaths(inv[r]) = PathsOf(Tagged(hist.negotiated, 2))
                    /\ Len(InputPaths(inv[l])) = 1
                    /\ Len(InputPaths(inv[r])) = 1
                    /\ inv[l].out.channel_index = 1
                    /\ inv[r].out.channel_index = 2
        /\ (hist.step = "channels" /\ ~Failed(executor)) =>
              LET m == CallsOfKind(executor.calls, "submix") IN
              /\ Len(m) = 1
              /\ m[1].left.channel_index = 1
              /\ m[1].right.channel_index = 2
              /\ IsPrefix(Tagged(current_files, 1)[1].path.stem, m[1].left.path.stem)
              /\ IsPrefix(Tagged(current_files, 2)[1].path.stem, m[1].right.path.stem)
              /\ m[1].dst = output_path

\* a stereo input went through two MONO operations and the run succeeded
C3_Witness ==
    /\ StereoThroughMono
    /\ opIndex = 2
    /\ pc = "SUCCESS"


\* C4: whenever FINALIZE_CHANNELS issues the interleave call, its left argument
\* is tagged left (channel_index 1) and its right argument is tagged right
\* (channel_index 2): files are never paired by their position in the list.
C4_MergeOnlyByTag ==
    hist.step = "channels" =>
        \A i \in 1..Len(executor.calls) :
            executor.calls[i].kind = "submix" =>
                /\ executor.calls[i].left.channel_index = 1
                /\ executor.calls[i].right.channel_index = 2

\* the position in the prepared list of the (first) file made from
\* input_files[i], when required_channels is what was asked for
Offset(input_files, required_channels, i) ==
    IF required_channels = "MONO"
    THEN i + Cardinality({j \in 1..(i - 1) : is_stereo(input_files[j])})
    ELSE i

PrepareReturned == hist.step = "prepare_inputs" /\ ~Failed(executor)

\* C5: when prepare_inputs returns for required_channels MONO, each stereo
\* input is replaced, at its position, by two MONO files made from it, the first
\* tagged 1 (left) and the second tagged 2 (right); each mono input stays at its
\* position, unchanged by the channel step and with its tag in the result; a
\* list of s stereo and m mono files becomes one of 2s + m files.
C5_SplitInPlace ==
    (PrepareReturned /\ hist.required_channels = "MONO") =>
        LET input_files == hist.input_files
            n == Len(input_files)
            s == Cardinality({i \in 1..n : is_stereo(input_files[i])})
        IN /\ Len(hist.prepared) = 2 * s + (n - s)
           /\ Len(hist.out) = 2 * s + (n - s)
           /\ \A i \in 1..n :
                LET k == Offset(input_files, "MONO", i) IN
                IF is_stereo(input_files[i])
                THEN /\ is_mono(hist.prepared[k]) /\ is_mono(hist.prepared[k + 1])
                     /\ hist.prepared[k].channel_index = 1
                     /\ hist.prepared[k + 1].channel_index = 2
                     /\ hist.out[k].channel_index = 1
                     /\ hist.out[k + 1].channel_index = 2
                     /\ IsPrefix(input_files[i].path.stem, hist.prepared[k].path.stem)
                     /\ IsPrefix(input_files[i].path.stem,
                                 hist.prepared[k + 1].path.stem)
                ELSE /\ hist.prepared[k] = input_files[i]
                     /\ hist.out[k].channel_index = input_files[i].channel_index
                     /\ is_mono(hist.out[k])
                     /\ input_files[i].format = hist.required_format =>
                            hist.out[k] = input_files[i]

\* prepare_inputs returned for MONO from a stereo file followed by a mono file
C5_Witness ==
    /\ PrepareReturned
    /\ hist.required_channels = "MONO"
    /\ Len(hist.input_files) = 2
    /\ is_stereo(hist.input_files[1])
    /\ is_mono(hist.input_files[2])
    /\ Len(hist.out) = 3

\* C6: when prepare_inputs(input_files, R, L) returns, every returned file has
\* format R and channels L; an input that already has format R and channels L
\* is returned as it is, and no call is issued on it.
C6_NegotiatedAsRequired ==
    PrepareReturned =>
        /\ \A i \in 1..Len(hist.out) :
              /\ hist.out[i].format = hist.required_format
              /\ hist.out[i].channels = hist.required_channels
        /\ \A i \in 1..Len(hist.input_files) :
              LET f == hist.input_files[i] IN
              (f.format = hist.required_format /\ f.channels = hist.required_channels)
                 => /\ hist.out[Offset(hist.input_files, hist.required_channels, i)] = f
                    /\ \A c \in Range(executor.calls) :
                          IF c.kind = "copy" THEN c.src # f.path ELSE c.file # f

\* prepare_inputs returned a converted file next to one it left alone
C6_Witness ==
    /\ PrepareReturned
    /\ Len(hist.input_files) = 2
    /\ hist.out[1] = hist.input_files[1]
    /\ hist.out[2] # hist.input_files[2]
    /\ hist.required_format = "wav"
    /\ Len(executor.calls) = 1

\* C7: when an operation requires STEREO and a file handed to it is MONO,
\* execute_operation raises ValueError without having issued any call, the run
\* fails, and nothing is written at output_path.
C7_MonoToStereoFails ==
    (/\ hist.step = "op"
     /\ hist.operation.channels = "STEREO"
     /\ \E f \in Range(hist.input_files) : is_mono(f)) =>
        /\ executor.err = "ValueError"
        /\ executor.calls = <<>>
        /\ pc \in {"CLEANUP", "FAILED"}
        /\ outFile # "new"
        /\ result = <<>>

\* the run failed on a STEREO operation handed a stereo and a mono file
C7_Witness ==
    /\ hist.step = "op"
    /\ hist.operation.channels = "STEREO"
    /\ Len(hist.input_files) = 2
    /\ is_stereo(hist.input_files[1])
    /\ is_mono(hist.input_files[2])
    /\ pc = "FAILED"

\* C8: every conversion call (pvoc anal, pvoc synth) made in a run yields a file
\* with the channel_index and the channels of the file it converts, and the
\* other format; the negotiation of an operation keeps the channel_index at
\* every position, and every file a MONO operation returns carries a
\* channel_index of the files handed to its invocations.
C8_ConversionKeepsTag ==
    /\ \A c \in Range(executor.calls) :
          c.kind \in {"anal", "synth"} =>
              /\ c.out.channel_index = c.file.channel_index
              /\ c.out.channels = c.file.channels
              /\ c.out.format = (IF c.kind = "anal" THEN "ana" ELSE "wav")
              /\ c.file.format = (IF c.kind = "anal" THEN "wav" ELSE "ana")
    /\ OperationReturned =>
          /\ Len(hist.negotiated) = Len(hist.prepared)
          /\ \A i \in 1..Len(hist.negotiated) :
                hist.negotiated[i].channel_index = hist.prepared[i].channel_index
          /\ hist.operation.channels = "MONO" =>
                Tags(current_files) = Tags(hist.prepared)

\* a left-tagged wav file was converted to ana for an operation that returned
C8_Witness ==
    /\ OperationReturned
    /\ \E c \in Range(executor.calls) :
          c.kind = "anal" /\ c.file.channel_index = 1 /\ c.out.channel_index = 1

MergeCalled == hist.step = "merge_stereo"

\* C9: merge_stereo(left, right, output_path) raises ValueError, having issued
\* no call and written nothing, unless both files are MONO and both are wav;
\* when it returns, it has issued the one interleave call on left and right and
\* returns a STEREO wav file whose path is output_path.
C9_MergeChecksInputs ==
    MergeCalled =>
        /\ ~(is_mono(hist.left) /\ is_mono(hist.right)
             /\ is_wav(hist.left) /\ is_wav(hist.right)) =>
              /\ executor.err = "ValueError"
              /\ executor.calls = <<>>
              /\ outFile # "new"
        /\ ~Failed(executor) =>
              /\ is_mono(hist.left) /\ is_mono(hist.right)
              /\ is_wav(hist.left) /\ is_wav(hist.right)
              /\ hist.out = AudioFile(output_path, "wav", "STEREO", None)
              /\ executor.calls = <<[kind |-> "submix", left |-> hist.left,
                                     right |-> hist.right, dst |-> output_path]>>

\* merge_stereo was called with two MONO files that are not both wav
C9_Witness ==
    /\ MergeCalled
    /\ is_mono(hist.left) /\ is_mono(hist.right)
    /\ is_wav(hist.left) /\ is_ana(hist.right)
    /\ executor.err = "ValueError"

AnyInputStereo == \E f \in Range(audio_files) : is_stereo(f)
LeftRightPair(files) ==
    Len(files) = 2 /\ {files[1].channel_index, files[2].channel_index} = {1, 2}

\* C10: with no output_channels given, a run that succeeds returns a STEREO
\* file when some input was stereo and a MONO file otherwise; when the final
\* list is neither a single file nor a left/right pair the run fails, returns
\* nothing and writes nothing at output_path.
C10_LayoutPreserved ==
    opts.output_channels = "None" =>
        /\ pc = "SUCCESS" =>
              result.channels = (IF AnyInputStereo THEN "STEREO" ELSE "MONO")
        /\ (/\ hist.step = "channels"
            /\ Len(hist.input_files) # 1
            /\ ~LeftRightPair(hist.input_files)) =>
              /\ Failed(executor)
              /\ pc \in {"CLEANUP", "FAILED"}
              /\ result = <<>>
              /\ outFile # "new"

\* a run with no output_channels failed on a final list of three files
C10_Witness ==
    /\ opts.output_channels = "None"
    /\ hist.step = "channels"
    /\ Len(hist.input_files) = 3
    /\ pc = "FAILED"

\* C11: when output_channels is given and the run ends successfully, the
\* returned file has the channels asked for: MONO for MONO, STEREO for STEREO.
C11_OutputChannelsHonoured ==
    (pc = "SUCCESS" /\ opts.output_channels \in ChannelMode) =>
        result.channels = opts.output_channels

\* the format run converts the final files to: output_format or FileFormat.WAV
RequestedFormat ==
    IF opts.output_format = "None" THEN "wav" ELSE opts.output_format

\* C12: a run that ends successfully returns a file of the requested
\* output_format (wav when none is given), whether the result is a copied
\* single file or a merged left/right pair.
C12_OutputFormatHonoured ==
    pc = "SUCCESS" => result.format = RequestedFormat

C16_ReplacedOnlyOnOverwrite ==
    [][/\ (pc = "INIT" /\ opts'.overwrite = "True") => outFile' \in {"absent", "unlinked"}
       /\ (opts.overwrite = "False" /\ outFile = "old") =>
              (outFile' = "old" /\ pc' # "SUCCESS")]_vars

\* C14: once run has returned or raised, temp_dir and the files in it are
\* deleted when keep_temp is not set and are all still there when it is set.
C14_ScratchPerKeepTemp ==
    pc \in {"SUCCESS", "FAILED"} =>
        scratch = (IF opts.keep_temp = "True" THEN "present" ELSE "deleted")

Resolved == hist.step = "to_absolute_times"

\* the number of positions of s that hold x
Count(s, x) == Cardinality({i \in 1..Len(s) : s[i] = x})

\* C20: for every Breakpoint and every duration, to_absolute_times returns the
\* (absolute time, value) pairs of the points, each as often as it was added,
\* in ascending order of absolute time: whatever the order the points were
\* added in and whether their times are percentages or seconds.
C20_SortedByAbsoluteTime ==
    Resolved =>
        LET pairs == absolute_pairs(hist.breakpoint, hist.duration) IN
        /\ Len(hist.out) = Len(pairs)
        /\ \A x \in Range(pairs) \cup Range(hist.out) :
              Count(hist.out, x) = Count(pairs, x)
        /\ \A i, j \in 1..Len(hist.out) :
              i < j => hist.out[i][1] <= hist.out[j][1]

\* "100%" was added first, then 1 second, then "0%": for a duration of 2
\* seconds the pairs come back in the opposite order
C20_Witness ==
    /\ Resolved
    /\ hist.duration = 2
    /\ hist.breakpoint.points = <<BreakpointValue(Percent(100), 1),
                                  BreakpointValue(Seconds(1), 0),
                                  BreakpointValue(Percent(0), 1)>>
    /\ hist.out = <<<<0, 1>>, <<100, 0>>, <<200, 1>>>>

ArgsBuilt == hist.step = "get_command_args"

\* C19: for every operation, input list and output file, get_command_args
\* returns exactly: the subcommand when there is one, the mode when there is
\* one, the input paths (all of them in the given order for a multi-input
\* operation, the first one only otherwise), the output path, then every param
\* in its order; and nothing else.
C19_ArgumentOrder ==
    ArgsBuilt =>
        LET op == hist.operation
            out == hist.out
            s == IF op.subcommand # "" THEN 1 ELSE 0
            m == IF op.mode # None THEN 1 ELSE 0
            n == IF op.multi_input THEN Len(hist.input_files) ELSE 1
        IN /\ Len(out) = s + m + n + 1 + Len(op.params)
           /\ s = 1 => out[1] = Arg("subcommand", op.subcommand)
           /\ m = 1 => out[s + 1] = Arg("mode", op.mode)
           /\ \A i \in 1..n : out[s + m + i] = Arg("input", hist.input_files[i].path)
           /\ out[s + m + n + 1] = Arg("output", hist.output_file.path)
           /\ \A i \in 1..Len(op.params) :
                 out[s + m + n + 1 + i] = Arg("param", op.params[i])

\* a single-input operation with a subcommand, a mode and three params was
\* handed two files: seven elements, the second file's path not among them
C19_Witness ==
    /\ ArgsBuilt
    /\ ~hist.operation.multi_input
    /\ hist.operation.subcommand = "sub"
    /\ hist.operation.mode = 1
    /\ Len(hist.operation.params) = 3
    /\ Len(hist.input_files) = 2
    /\ Len(hist.out) = 7

\* execute_operation was called directly
Executed == hist.step = "execute_operation"
Automated(operation) ==
    \E i \in 1..Len(operation.params) : is_automatable(operation.params[i])
Curves(operation) == SelectSeq(operation.params, is_automatable)
ParamsOf(c) ==
    LET ps == SelectSeq(c.args, LAMBDA a : a.t = "param")
    IN [i \in 1..Len(ps) |-> ps[i].v]

InvocationCalls(calls, G, nC, g) ==
    SubSeq(calls, Len(calls) - (G - g + 1) * (nC + 2) + 1,
                  Len(calls) - (G - g) * (nC + 2))

\* params with the k-th Breakpoint replaced by the path of the k-th write
RECURSIVE Substituted(_, _)
Substituted(params, writes) ==
    IF params = <<>> THEN <<>>
    ELSE IF is_automatable(Head(params))
    THEN <<PathParam(Head(writes).dst)>> \o Substituted(Tail(params), Tail(writes))
    ELSE <<Head(params)>> \o Substituted(Tail(params), writes)

\* C18: when execute_operation returns for an operation with Breakpoints, each
\* of its invocations (one per channel group, or the single one) has queried
\* the duration of the first file of its own input list, has written one file
\* per Breakpoint, holding that Breakpoint resolved against the duration this
\* very query reported, each at a path no other write of the call uses, and has
\* handed the program the params with each Breakpoint replaced by its file.
C18_DurationPerInvocation ==
    (Executed /\ ~Failed(executor) /\ Automated(hist.operation)) =>
        LET inv == CdpCalls(executor.calls)
            G == Len(inv)
            curves == Curves(hist.operation)
            nC == Len(curves)
            writes == CallsOfKind(executor.calls, "write")
        IN /\ Len(CallsOfKind(executor.calls, "sndinfo")) = G
           /\ Len(writes) = G * nC
           /\ Distinct([i \in 1..Len(writes) |-> writes[i].dst])
           /\ \A g \in 1..G :
                LET cs == InvocationCalls(executor.calls, G, nC, g) IN
                /\ cs[1].kind = "sndinfo"
                /\ cs[1].file.path = InputPaths(inv[g])[1]
                /\ cs[1].file \in Range(hist.negotiated)
                /\ cs[nC + 2] = inv[g]
                /\ \A k \in 1..nC :
                      /\ cs[1 + k].kind = "write"
                      /\ cs[1 + k].dst.dir = "tmp"
                      /\ cs[1 + k].content =
                            to_file_content(curves[k], cs[1].duration)
                /\ ParamsOf(inv[g]) =
                      Substituted(hist.operation.params, SubSeq(cs, 2, nC + 1))

\* a stereo file went through a MONO operation with a Breakpoint: the left and
\* the right invocation were reported different durations and wrote different
\* contents
C18_Witness ==
    /\ Executed
    /\ ~Failed(executor)
    /\ Len(hist.input_files) = 1
    /\ is_stereo(hist.input_files[1])
    /\ hist.operation.params = <<Fade>>
    /\ LET q == CallsOfKind(executor.calls, "sndinfo")
           w == CallsOfKind(executor.calls, "write")
       IN /\ Len(q) = 2
          /\ q[1].duration # q[2].duration
          /\ w[1].content # w[2].content

\* the points of a Breakpoint given in seconds, beyond the duration
LatePoints(breakpoint, duration) ==
    {i \in 1..Len(breakpoint.points) :
        /\ breakpoint.points[i].time.kind = "s"
        /\ breakpoint.points[i].time.n > duration}

\* C21: to_absolute_times returns as many pairs as the Breakpoint has points;
\* each point given in seconds beyond the duration is among the pairs returned
\* and is warned about once; no other point is warned about, so a Breakpoint
\* given in percentages only gets no warning, even for a percentage above 100.
C21_WarnsOnlyLateSeconds ==
    Resolved =>
        LET pts == hist.breakpoint.points
            late == LatePoints(hist.breakpoint, hist.duration)
        IN /\ Len(hist.out) = Len(pts)
           /\ Len(hist.warned) = Cardinality(late)
           /\ \A i \in late :
                 /\ <<100 * pts[i].time.n, pts[i].value>> \in Range(hist.out)
                 /\ Count(hist.warned, pts[i]) = Count(pts, pts[i])
           /\ (\A i \in 1..Len(pts) : pts[i].time.kind = "%") => hist.warned = <<>>

\* 3 seconds, "150%" and "0%" for a duration of 1 second: three pairs, two of
\* them beyond the duration, one warning
C21_Witness ==
    /\ Resolved
    /\ hist.duration = 1
    /\ hist.breakpoint.points = <<BreakpointValue(Seconds(3), 1),
                                  BreakpointValue(Percent(150), 0),
                                  BreakpointValue(Percent(0), 0)>>
    /\ hist.out = <<<<0, 0>>, <<150, 0>>, <<300, 1>>>>
    /\ hist.warned = <<BreakpointValue(Seconds(3), 1)>>

\* C22: every breakpoint file written has one line per point of the
\* Breakpoint, in the order to_absolute_times returns them, and the times of
\* successive lines are strictly ascending.
C22_FileStrictlyAscending ==
    \A c \in Range(CallsOfKind(executor.calls, "write")) :
        /\ \E b \in Range(Curves(hist.operation)) :
              Len(c.content) = Len(b.points)
        /\ \A i \in 1..(Len(c.content) - 1) :
              c.content[i][1] < c.content[i + 1][1]

\* what a time resolves to, in hundredths of a second: duration * P / 100 for
\* "P%", the number itself for a number of seconds
ResolvedTime(time, duration) ==
    IF time.kind = "%" THEN (100 * duration * time.n) \div 100
    ELSE 100 * time.n

\* C23: to_absolute_times resolves a point at "P%" to duration * P / 100 and a
\* point at a number of seconds to that number, and carries every value over:
\* the pairs returned are those of the points, each as often as it occurs.
C23_ResolvedTimes ==
    Resolved =>
        LET pts == hist.breakpoint.points
            expected == [i \in 1..Len(pts) |->
                            <<ResolvedTime(pts[i].time, hist.duration),
                              pts[i].value>>]
        IN /\ Len(hist.out) = Len(pts)
           /\ \A x \in Range(expected) \cup Range(hist.out) :
                 Count(hist.out, x) = Count(expected, x)

\* "50%" of 2 seconds is 1 second, and 1 second is 1 second
C23_Witness ==
    /\ Resolved
    /\ hist.duration = 2
    /\ hist.breakpoint.points = <<BreakpointValue(Percent(50), 1),
                                  BreakpointValue(Seconds(1), 0)>>
    /\ hist.out = <<<<100, 1>>, <<100, 0>>>>

\* the paths of temp_dir a call writes
Created(c) ==
    IF c.kind \in {"copy", "write"} THEN IF c.dst.dir = "tmp" THEN {c.dst} ELSE {}
    ELSE IF c.kind = "housekeep" THEN {channel_path(c.src, 1), channel_path(c.src, 2)}
    ELSE IF c.kind \in {"anal", "synth", "cdp"} THEN {c.out.path}
    ELSE {}

\* C24: when prepare_inputs is handed files as get_file_info describes them
\* (a stereo file is a wav file), the files it creates in temp_dir have
\* pairwise distinct paths: no two of its calls write the same path, whatever
\* the paths of the input files.
C24_DistinctTempPaths ==
    (/\ hist.step = "prepare_inputs"
     /\ \A f \in Range(hist.input_files) : is_stereo(f) => is_wav(f)) =>
        \A i, j \in 1..Len(executor.calls) :
            i < j =>
                Created(executor.calls[i]) \cap Created(executor.calls[j]) = {}

\* the calls that start a program: split, analysis, synthesis, operation, merge
Invocations == {"housekeep", "anal", "synth", "cdp", "submix"}

\* C25: on a verbose executor every program a step starts is echoed, and the
\* echo is printed before the program is started: for each such call there is
\* an "Executing" line printed when that call was the next to be issued.
C25_VerboseEchoesAll ==
    executor.verbose =>
        \A i \in 1..Len(executor.calls) :
            executor.calls[i].kind \in Invocations =>
                \E l \in Range(executor.stdout) :
                    l.kind = "Executing" /\ l.at = i

\* the phases of run in the order of its text
PhaseRank(p) ==
    CASE p = "INIT" -> 0
      [] p = "PROBE" -> 1
      [] p = "OPS" -> 2
      [] p = "FINALIZE_CHANNELS" -> 3
      [] p = "CLEANUP" -> 4
      [] OTHER -> 5

Conversions(calls) == SelectSeq(calls, LAMBDA c : c.kind \in {"anal", "synth"})

\* a step moves forward in the order of the phases (a phase that loops over
\* inputs or operations is left once and not entered again)
PhasesInOrder == PhaseRank(pc) <= PhaseRank(pc')

\* an operation is handed the set the stage before it left
ConsumesPrevious == hist'.step = "op" => hist'.input_files = current_files

\* once the output has been converted to the requested format, the step that
\* follows (channels and write) issues no conversion
NoLateConversion == hist'.step = "channels" => Conversions(executor'.calls) = <<>>

\* C26: every step of a run moves forward through the phases probe,
\* operations, representation, channels and write, cleanup; each operation
\* consumes the set left by the stage before it; and after the representation
\* has been finalized no analysis or synthesis is issued.
C26_PhaseOrder == [][PhasesInOrder /\ ConsumesPrevious /\ NoLateConversion]_vars

\* in the calls of one step no split comes after a conversion
SplitsBeforeConversions(calls) ==
    \A i, j \in 1..Len(calls) :
        (i < j /\ calls[i].kind \in {"anal", "synth"}) => calls[j].kind # "housekeep"

\* every analysis is issued on a MONO file
AnalysesOnMono(calls) ==
    \A i \in 1..Len(calls) : calls[i].kind = "anal" => is_mono(calls[i].file)

\* every split is issued on a wav file
SplitsOnWav(calls) ==
    \A i \in 1..Len(calls) : calls[i].kind = "housekeep" => is_wav(calls[i].file)

\* C27: in every step of a run the splits of a negotiation all come before
\* its conversions, every analysis is issued on a MONO file and every split on
\* a wav file.
C27_SplitThenConvert ==
    /\ SplitsBeforeConversions(executor.calls)
    /\ AnalysesOnMono(executor.calls)
    /\ SplitsOnWav(executor.calls)

\* every file with a channel_index is MONO, and the list holds a file with
\* channel_index 1 exactly if it holds one with channel_index 2
WellTagged(files) ==
    /\ \A f \in Range(files) : f.channel_index # None => is_mono(f)
    /\ (1 \in Tags(files)) <=> (2 \in Tags(files))

\* at most one file for each channel_index (None, 1, 2)
OnePerTag(files) ==
    /\ \A idx \in Tags(files) : Len(Tagged(files, idx)) = 1
    /\ Len(files) <= 3

\* C28: the probed files, the files an operation's negotiation returned and
\* the files each step left are well tagged (a tagged file is MONO, left
\* exactly if right); the files a MONO operation returned hold at most one
\* file per tag, so at most three.
C28_WellTaggedSets ==
    /\ WellTagged(audio_files)
    /\ WellTagged(current_files)
    /\ OperationReturned =>
          /\ WellTagged(hist.negotiated)
          /\ hist.operation.channels = "MONO" => OnePerTag(current_files)

\* a MONO operation was handed two left and two right files and returned one
\* of each
C28_Witness ==
    /\ OperationReturned
    /\ hist.operation.channels = "MONO"
    /\ Len(hist.negotiated) = 4
    /\ WellTagged(hist.negotiated)
    /\ Tags(current_files) = {1, 2}
    /\ Len(current_files) = 2

\* the invocations of the step that take the file as an input
InvocationsTaking(calls, f) ==
    {i \in 1..Len(calls) :
        calls[i].kind = "cdp" /\ f.path \in Range(InputPaths(calls[i]))}

\* C29: when an operation has returned, every file of the list its
\* negotiation produced is an input of exactly one of its invocations.
C29_EveryInputUsed ==
    OperationReturned =>
        \A f \in Range(hist.negotiated) :
            Cardinality(InvocationsTaking(executor.calls, f)) = 1

\* C30: a run that ends FAILED has left the file that was at the output path
\* before the run as it was: no step of a run that ends FAILED removes or
\* replaces it, whatever overwrite is.
C30_FailedKeepsOutput ==
    pc = "FAILED" => outFile \in {"absent", "old"}

====
